---- MODULE Spec2Model ----
(***************************************************************************)
(* The Playwright CI reporter (src/src/index.ts, CustomReporterConfig):    *)
(* the attempt store filled by onTestEnd and the run-end reduction done by *)
(* onEnd, together with the part of the Playwright runner the reporter     *)
(* reads: each TestCase's title, expectedStatus and results, from which    *)
(* TestCase.outcome() is computed.                                         *)
(*                                                                         *)
(* JavaScript numbers are modelled as exact rationals [n, d] in lowest     *)
(* terms (IEEE rounding is not modelled); strings are TLA+ strings; an     *)
(* optional field is <<>> when undefined and <<v>> when it holds v.        *)
(***************************************************************************)
EXTENDS Integers, Sequences, FiniteSets, TLC

VARIABLES
    run,              \* the run the reporter is attached to: "mixed" or "scenario" (see Suite, Menu, Budget, TestUrl)
    results,          \* runner: TestCase.results, per test the statuses of its finished attempts
    now,              \* what Date.now() returns
    phase,            \* "constructed" -> (onBegin) -> "running" -> (onEnd, process.exit) -> "exited"
    testRecords,      \* reporter: Map<string, TestRecord> in insertion order
    setupFailures,    \* reporter: errors pushed by onError
    startTime,        \* reporter: timestamp taken by onBegin
    environmentUrl,   \* reporter: process.env.TEST_URL || ''
    testResultsJson,  \* the summaries written to test-results.json, in the order written
    exitCode,         \* <<>> while the process runs, <<c>> after process.exit(c)
    stdout,           \* the headline onEnd printed: <<>> before onEnd
    thisFailures,     \* logger-based and counter-based variants: this.failures
    passedCount,      \* counter-based variant: the passedCount field
    failedCount       \* counter-based variant: the failedCount field

reporterVars == <<testRecords, setupFailures, startTime, environmentUrl>>
outputVars == <<testResultsJson, exitCode, stdout>>
variantVars == <<thisFailures, passedCount, failedCount>>
vars == <<run, results, now, phase, testRecords, setupFailures, startTime,
          environmentUrl, testResultsJson, exitCode, stdout,
          thisFailures, passedCount, failedCount>>

-----------------------------------------------------------------------------
(* Bounds of the model *)

MaxAttempts == 3          \* attempts the runner delivers in one run (all tests together)
ScenarioAttempts == 4     \* the same, in the three-test scenario run
Binary64Attempts == 3     \* the same, in the run whose arithmetic is followed bit by bit
MaxSetupErrors == 1       \* onError calls in one run
ClockStart == 1000        \* Date.now() when the reporter is constructed
TickMs == 250             \* time that passes between two callbacks

(* Program constants *)

MsPerSecond == 1000

-----------------------------------------------------------------------------
(* JavaScript values *)

Undefined == <<>>
Some(v) == <<v>>

\* a || b for an optional string a: b when a is undefined or ''
OrElse(a, b) == IF a = Undefined \/ a = Some("") THEN b ELSE a[1]

RECURSIVE Gcd(_, _)
Gcd(a, b) == IF b = 0 THEN a ELSE Gcd(b, a % b)

\* the number n / d, for n >= 0 and d > 0
Num(n, d) == IF n = 0 THEN [n |-> 0, d |-> 1]
             ELSE [n |-> n \div Gcd(n, d), d |-> d \div Gcd(n, d)]

NumAdd(a, b) == Num(a.n * b.d + b.n * a.d, a.d * b.d)
NumDiv(a, k) == Num(a.n, a.d * k)
NumLe(a, b) == a.n * b.d <= b.n * a.d
NumMax2(a, b) == IF NumLe(a, b) THEN b ELSE a
Zero == Num(0, 1)

\* Array.prototype.join
RECURSIVE join(_, _)
join(strs, sep) ==
    IF strs = <<>> THEN ""
    ELSE IF Len(strs) = 1 THEN strs[1]
    ELSE strs[1] \o sep \o join(Tail(strs), sep)

\* String.prototype.includes
includes(s, sub) ==
    \E i \in 1..(Len(s) - Len(sub) + 1) : SubSeq(s, i, i + Len(sub) - 1) = sub

\* passedDurations.reduce((a, b) => a + b, 0)
RECURSIVE sum(_)
sum(nums) == IF nums = <<>> THEN Zero ELSE NumAdd(nums[1], sum(Tail(nums)))

\* Math.max(...nums), for a non-empty nums
RECURSIVE max(_)
max(nums) == IF Len(nums) = 1 THEN nums[1] ELSE NumMax2(nums[1], max(Tail(nums)))

-----------------------------------------------------------------------------
(* The runner: suites and the results it can deliver *)

Tests == {1, 2, 3}

\* Two tests carry the title T1 (the same test in two projects or files);
\* test 2 is annotated test.fail().
MixedSuite ==
    [title |-> <<"T1", "T2", "T1">>,
     expectedStatus |-> <<"passed", "failed", "passed">>]

\* Three tests with distinct titles, all expected to pass.
PlainSuite ==
    [title |-> <<"T1", "T2", "T3">>,
     expectedStatus |-> <<"passed", "passed", "passed">>]

Passed2000 == [status |-> "passed", duration |-> 2000, errors |-> <<>>]
Passed1500 == [status |-> "passed", duration |-> 1500, errors |-> <<>>]
FailedBoom ==
    [status |-> "failed", duration |-> 1000,
     errors |-> <<[message |-> Some("boom"), stack |-> Some("Error: boom\n    at a.spec.ts:3:5")]>>]
FailedTimeout ==
    [status |-> "failed", duration |-> 500,
     errors |-> <<[message |-> Some("timeout exceeded"), stack |-> Undefined]>>]
FailedTwoErrors ==
    [status |-> "failed", duration |-> 750,
     errors |-> <<[message |-> Some("waiting: timeout 5000ms"), stack |-> Undefined],
                  [message |-> Some(""), stack |-> Some("    at b.spec.ts:9:1")]>>]
FailedClick ==
    [status |-> "failed", duration |-> 1250,
     errors |-> <<[message |-> Some("page.click: Timeout 3000ms exceeded."),
                   stack |-> Some("TimeoutError: page.click\n    at c.spec.ts:7:3")]>>]
TimedOut == [status |-> "timedOut", duration |-> 3000, errors |-> <<>>]
Skipped == [status |-> "skipped", duration |-> 0, errors |-> <<>>]
Interrupted == [status |-> "interrupted", duration |-> 100, errors |-> <<>>]

AllResults ==
    {Passed2000, Passed1500, FailedClick, FailedTwoErrors, TimedOut, Skipped, Interrupted}

ScenarioResults == {Passed2000, Passed1500, FailedBoom, FailedTimeout}

\* the results of the run whose arithmetic is followed bit by bit
Passed100 == [status |-> "passed", duration |-> 100, errors |-> <<>>]
Binary64Results == {Passed100, Passed2000, FailedBoom, Skipped}

\* The run: which suite is executed, which results its attempts can have, how
\* many attempts are delivered at most, and the TEST_URL of the environment.
Suite == IF run = "scenario" THEN PlainSuite ELSE MixedSuite
Menu ==
    IF run = "scenario" THEN ScenarioResults
    ELSE IF run = "binary64" THEN Binary64Results
    ELSE AllResults
Budget ==
    IF run = "scenario" THEN ScenarioAttempts
    ELSE IF run = "binary64" THEN Binary64Attempts
    ELSE MaxAttempts
TestUrl == IF run = "scenario" THEN Some("https://staging.example.com") ELSE Undefined

RuntimeError == [message |-> "browser closed", stack |-> Some("Error: browser closed")]

-----------------------------------------------------------------------------
(* TestCase.outcome() of @playwright/test (^1.49.0), called by onEnd. It    *)
(* reads the test's expectedStatus and all of its results: interrupted     *)
(* results are ignored, a skipped result is neither expected nor           *)
(* unexpected, any other result is expected when its status equals         *)
(* expectedStatus. Earlier releases compute it by filtering the results;   *)
(* for tests expected to pass or to fail both give the same outcome up to  *)
(* expected/flaky, which onEnd does not tell apart.                        *)

\* Variant: the outcome taken from the last result and the number of results
\* (a pass after any earlier attempt is flaky).
outcomeByLastResult(test) ==
    LET rs == results[test]
        last == rs[Len(rs)]
    IN  IF rs = <<>> \/ last = "skipped" THEN "skipped"
        ELSE IF last = "passed" THEN (IF Len(rs) = 1 THEN "expected" ELSE "flaky")
        ELSE "unexpected"

outcome(test) ==
    LET rs == results[test]
        want == Suite.expectedStatus[test]
        ran == {i \in DOMAIN rs : rs[i] \notin {"interrupted", "skipped"}}
        skipped == Cardinality({i \in DOMAIN rs : rs[i] = "skipped" /\ want = "skipped"})
        expected == Cardinality({i \in ran : rs[i] = want})
        unexpected == Cardinality({i \in ran : rs[i] # want})
    IN  IF expected = 0 /\ unexpected = 0 THEN "skipped"
        ELSE IF unexpected = 0 THEN "expected"
        ELSE IF expected = 0 /\ skipped = 0 THEN "unexpected"
        ELSE "flaky"

-----------------------------------------------------------------------------
(* The attempt store *)

\* Map.prototype.has
has(records, key) == \E i \in DOMAIN records : records[i].key = key

\* Variant: the record set without asking has() first, a fresh record
\* replacing the one the title already has.
ensureRecordAlwaysSet(records, title, test) ==
    IF ~has(records, title)
    THEN Append(records, [key |-> title, test |-> test, attempts |-> <<>>])
    ELSE [i \in DOMAIN records |->
             IF records[i].key = title
             THEN [key |-> title, test |-> test, attempts |-> <<>>]
             ELSE records[i]]

\* this.testRecords.set(title, {test, attempts: []}) when the title is new
ensureRecord(records, title, test) ==
    IF ~has(records, title)
    THEN Append(records, [key |-> title, test |-> test, attempts |-> <<>>])
    ELSE records

storedError(e) == [message |-> OrElse(e.message, "No error message"), stack |-> e.stack]

\* the AttemptInfo pushed for a result
attemptInfo(result) ==
    [status |-> result.status,
     duration |-> NumDiv(Num(result.duration, 1), MsPerSecond),
     errors |-> [i \in DOMAIN result.errors |-> storedError(result.errors[i])]]

\* Variant: the record's attempts replaced by the new attempt alone.
overwriteAttempts(records, title, attempt) ==
    [i \in DOMAIN records |->
        IF records[i].key = title
        THEN [records[i] EXCEPT !.attempts = <<attempt>>]
        ELSE records[i]]

\* Variant: the attempt put in front of the record's attempts (unshift).
unshiftAttempt(records, title, attempt) ==
    [i \in DOMAIN records |->
        IF records[i].key = title
        THEN [records[i] EXCEPT !.attempts = <<attempt>> \o @]
        ELSE records[i]]

\* Variant: the attempt pushed on every record of the store.
pushAttemptOnAll(records, title, attempt) ==
    [i \in DOMAIN records |-> [records[i] EXCEPT !.attempts = Append(@, attempt)]]

\* record.attempts.push(...) on the record of the title
pushAttempt(records, title, attempt) ==
    [i \in DOMAIN records |->
        IF records[i].key = title
        THEN [records[i] EXCEPT !.attempts = Append(@, attempt)]
        ELSE records[i]]

-----------------------------------------------------------------------------
(* The run-end reduction: the body of the loop over testRecords.values() *)

\* Variant: the first attempt taken for the final one.
firstAttemptOf(attempts) == attempts[1]

finalAttemptOf(attempts) == attempts[Len(attempts)]

\* Variant: every attempt counted as a retry.
testRetriesCountingFirst(attempts) == Len(attempts)

testRetriesOf(attempts) == IF Len(attempts) > 1 THEN Len(attempts) - 1 ELSE 0

countsAsPassed(finalOutcome) == finalOutcome = "expected" \/ finalOutcome = "flaky"

countsAsFailed(finalOutcome) == finalOutcome = "unexpected"

\* Variant: the outcome compared with a status name outcome() never returns.
countsAsSkippedMisspelt(finalOutcome) == finalOutcome = "skip"

countsAsSkipped(finalOutcome) == finalOutcome = "skipped"

\* attempts.map((a) => a.duration)
durationsOf(attempts) == [i \in DOMAIN attempts |-> attempts[i].duration]

\* Variant: the durations of all attempts, whatever their status.
allDurationsOf(attempts) == durationsOf(attempts)

passedDurationsOf(attempts) ==
    durationsOf(SelectSeq(attempts, LAMBDA a : a.status = "passed"))

\* Variant: the flag taken from the attempt's status.
isTimeoutByStatus(finalAttempt) == finalAttempt.status = "timedOut"

isTimeoutOf(finalAttempt) ==
    \E i \in DOMAIN finalAttempt.errors : includes(finalAttempt.errors[i].message, "timeout")

\* Variant: only the first error's message, as result.errors[0] would give.
firstMessageOf(finalAttempt) ==
    IF finalAttempt.errors = <<>> THEN "" ELSE finalAttempt.errors[1].message

combinedMessageOf(finalAttempt) ==
    join([i \in DOMAIN finalAttempt.errors |-> finalAttempt.errors[i].message], "\n")

combinedStackOf(finalAttempt) ==
    join([i \in DOMAIN finalAttempt.errors |-> OrElse(finalAttempt.errors[i].stack, "")], "\n")

failureOf(test, attempts) ==
    [title |-> Suite.title[test],
     message |-> combinedMessageOf(finalAttemptOf(attempts)),
     stack |-> combinedStackOf(finalAttemptOf(attempts)),
     timeTaken |-> finalAttemptOf(attempts).duration,
     isTimeout |-> isTimeoutOf(finalAttemptOf(attempts))]

emptyTally ==
    [passedCount |-> 0, failedCount |-> 0, skippedCount |-> 0, testCount |-> 0,
     totalRetries |-> 0, failures |-> <<>>, passedDurations |-> <<>>]

tallyRecord(tally, record) ==
    LET finalOutcome == outcome(record.test)
        counted == [tally EXCEPT !.testCount = @ + 1,
                                 !.totalRetries = @ + testRetriesOf(record.attempts)]
    IN  IF countsAsPassed(finalOutcome)
        THEN [counted EXCEPT !.passedCount = @ + 1,
                             !.passedDurations = @ \o passedDurationsOf(record.attempts)]
        ELSE IF countsAsFailed(finalOutcome)
        THEN [counted EXCEPT !.failedCount = @ + 1,
                             !.failures = Append(@, failureOf(record.test, record.attempts))]
        ELSE IF countsAsSkipped(finalOutcome)
        THEN [counted EXCEPT !.skippedCount = @ + 1]
        ELSE counted

RECURSIVE tallyRecords(_, _)
tallyRecords(records, tally) ==
    IF records = <<>> THEN tally
    ELSE tallyRecords(Tail(records), tallyRecord(tally, Head(records)))

\* Variant: the sum divided by the number of gaps between the durations.
averageTimeOverGaps(passedDurations) ==
    IF Len(passedDurations) > 1
    THEN NumDiv(sum(passedDurations), Len(passedDurations) - 1)
    ELSE Zero

averageTimeOf(passedDurations) ==
    IF Len(passedDurations) > 0
    THEN NumDiv(sum(passedDurations), Len(passedDurations))
    ELSE Zero

slowestTestOf(passedDurations) ==
    IF Len(passedDurations) > 0 THEN max(passedDurations) ELSE Zero

\* Variant: the difference of the timestamps left in milliseconds.
totalTimeInMs(endTime) == Num(endTime - startTime, 1)

totalTimeOf(endTime) == NumDiv(Num(endTime - startTime, 1), MsPerSecond)

\* Variant: the branch taken also when the list is empty.
failurePathNonNegative(failures) == Len(failures) >= 0

\* Variant: the branch taken on setup failures instead of test failures.
failurePathOnSetupFailures(failures) == Len(setupFailures) > 0

\* the branch of onEnd: failures.length > 0
failurePath(failures) == Len(failures) > 0

\* Variant: environmentUrl left out of the summary.
writeJsonSummaryWithoutUrl(endTime, totalTime, averageTime, slowestTest, totalTests, passed, failed, skipped, totalRetries, failures) ==
    [startTime |-> startTime,
     endTime |-> endTime,
     totalTimeSeconds |-> totalTime,
     totalTests |-> totalTests,
     passed |-> passed,
     failed |-> failed,
     skipped |-> skipped,
     failures |-> failures,
     averageTestDurationSeconds |-> averageTime,
     slowestTestDurationSeconds |-> slowestTest,
     totalRetries |-> totalRetries]

writeJsonSummary(endTime, totalTime, averageTime, slowestTest, totalTests, passed, failed, skipped, totalRetries, failures) ==
    [startTime |-> startTime,
     endTime |-> endTime,
     totalTimeSeconds |-> totalTime,
     totalTests |-> totalTests,
     passed |-> passed,
     failed |-> failed,
     skipped |-> skipped,
     failures |-> failures,
     averageTestDurationSeconds |-> averageTime,
     slowestTestDurationSeconds |-> slowestTest,
     totalRetries |-> totalRetries,
     environmentUrl |-> environmentUrl]

-----------------------------------------------------------------------------
(* The reporter's callbacks *)

onBegin ==
    /\ startTime' = now
    /\ UNCHANGED <<testRecords, setupFailures, environmentUrl, outputVars>>

onError(error) ==
    /\ setupFailures' = Append(setupFailures, [message |-> error.message, stack |-> error.stack])
    /\ UNCHANGED <<testRecords, startTime, environmentUrl, outputVars>>

onTestEnd(test, result) ==
    /\ testRecords' =
          pushAttempt(ensureRecord(testRecords, Suite.title[test], test),
                      Suite.title[test], attemptInfo(result))
    /\ UNCHANGED <<setupFailures, startTime, environmentUrl, outputVars>>

\* Variant: the summary written on the failure path only.
onEndSilentOnSuccess ==
    LET endTime == now
        tally == tallyRecords(testRecords, emptyTally)
        averageTime == averageTimeOf(tally.passedDurations)
        slowestTest == slowestTestOf(tally.passedDurations)
    IN  /\ stdout' =
              IF failurePath(tally.failures)
              THEN Some([line |-> "tests failed", failed |-> Len(tally.failures),
                         of |-> tally.testCount, passed |-> tally.passedCount])
              ELSE Some([line |-> "all tests passed", of |-> tally.testCount])
        /\ testResultsJson' =
              IF failurePath(tally.failures)
              THEN Append(testResultsJson,
                          writeJsonSummary(endTime, totalTimeOf(endTime), averageTime, slowestTest,
                                           tally.testCount, tally.passedCount, tally.failedCount,
                                           tally.skippedCount, tally.totalRetries, tally.failures))
              ELSE testResultsJson
        /\ exitCode' = Some(IF failurePath(tally.failures) THEN 1 ELSE 0)
        /\ UNCHANGED reporterVars

\* Variant: the records consumed by the reduction (the map cleared as it is read).
onEndConsumingStore ==
    LET endTime == now
        tally == tallyRecords(testRecords, emptyTally)
        averageTime == averageTimeOf(tally.passedDurations)
        slowestTest == slowestTestOf(tally.passedDurations)
    IN  /\ stdout' =
              IF failurePath(tally.failures)
              THEN Some([line |-> "tests failed", failed |-> Len(tally.failures),
                         of |-> tally.testCount, passed |-> tally.passedCount])
              ELSE Some([line |-> "all tests passed", of |-> tally.testCount])
        /\ testResultsJson' =
              Append(testResultsJson,
                     writeJsonSummary(endTime, totalTimeOf(endTime), averageTime, slowestTest,
                                      tally.testCount, tally.passedCount, tally.failedCount,
                                      tally.skippedCount, tally.totalRetries,
                                      IF failurePath(tally.failures) THEN tally.failures ELSE <<>>))
        /\ exitCode' = Some(IF failurePath(tally.failures) THEN 1 ELSE 0)
        /\ testRecords' = <<>>
        /\ UNCHANGED <<setupFailures, startTime, environmentUrl>>

onEnd ==
    LET endTime == now
        tally == tallyRecords(testRecords, emptyTally)
        averageTime == averageTimeOf(tally.passedDurations)
        slowestTest == slowestTestOf(tally.passedDurations)
    IN  /\ stdout' =
              IF failurePath(tally.failures)
              THEN Some([line |-> "tests failed", failed |-> Len(tally.failures),
                         of |-> tally.testCount, passed |-> tally.passedCount])
              ELSE Some([line |-> "all tests passed", of |-> tally.testCount])
        /\ testResultsJson' =
              Append(testResultsJson,
                     writeJsonSummary(endTime, totalTimeOf(endTime), averageTime, slowestTest,
                                      tally.testCount, tally.passedCount, tally.failedCount,
                                      tally.skippedCount, tally.totalRetries,
                                      IF failurePath(tally.failures) THEN tally.failures ELSE <<>>))
        /\ exitCode' = Some(IF failurePath(tally.failures) THEN 1 ELSE 0)
        /\ UNCHANGED reporterVars

-----------------------------------------------------------------------------
(* The runner drives the reporter *)

RECURSIVE attemptsDelivered(_)
attemptsDelivered(tests) ==
    IF tests = {} THEN 0
    ELSE LET t == CHOOSE x \in tests : TRUE
         IN  Len(results[t]) + attemptsDelivered(tests \ {t})

RunBegin ==
    /\ phase = "constructed"
    /\ onBegin
    /\ phase' = "running"
    /\ now' = now + TickMs
    /\ UNCHANGED <<run, results>>
    /\ UNCHANGED variantVars

RunError ==
    /\ phase = "running"
    /\ Len(setupFailures) < MaxSetupErrors
    /\ onError(RuntimeError)
    /\ now' = now + TickMs
    /\ UNCHANGED <<run, results, phase>>
    /\ UNCHANGED variantVars

\* An attempt of a test finishes: the runner appends its result to test.results
\* and calls onTestEnd with it; result.retry is the attempt's index.
RunTestEnd ==
    \E test \in Tests, r \in Menu :
        /\ phase = "running"
        /\ attemptsDelivered(Tests) < Budget
        /\ results' = [results EXCEPT ![test] = Append(@, r.status)]
        /\ onTestEnd(test, [status |-> r.status, duration |-> r.duration,
                            errors |-> r.errors, retry |-> Len(results[test])])
        /\ now' = now + TickMs
        /\ UNCHANGED <<run, phase>>
        /\ UNCHANGED variantVars

\* Variant: onEnd returns without process.exit and the run goes on.
RunEndKeepsRunning ==
    /\ phase = "running"
    /\ testResultsJson = <<>>
    /\ onEnd
    /\ phase' = "running"
    /\ now' = now + TickMs
    /\ UNCHANGED <<run, results>>
    /\ UNCHANGED variantVars

RunEnd ==
    /\ phase = "running"
    /\ onEnd
    /\ phase' = "exited"
    /\ now' = now + TickMs
    /\ UNCHANGED <<run, results>>
    /\ UNCHANGED variantVars

Construct(kind) ==
    /\ run = kind
    /\ results = [t \in Tests |-> <<>>]
    /\ now = ClockStart
    /\ phase = "constructed"
    /\ testRecords = <<>>
    /\ setupFailures = <<>>
    /\ startTime = 0
    /\ environmentUrl = OrElse(TestUrl, "")
    /\ testResultsJson = <<>>
    /\ exitCode = Undefined
    /\ stdout = Undefined
    /\ thisFailures = <<>>
    /\ passedCount = 0
    /\ failedCount = 0

Init == Construct("mixed")

InitScenario == Construct("scenario")

Next == RunBegin \/ RunError \/ RunTestEnd \/ RunEnd

Spec == Init /\ [][Next]_vars

SpecScenario == InitScenario /\ [][Next]_vars

-----------------------------------------------------------------------------
(* The variant that imports the colors table (src/unnamed/part_004, class    *)
(* at lines 192-450). Its fields, onBegin, onError, onTestEnd and             *)
(* writeJsonSummary are those of the reporter above; its onEnd differs in    *)
(* the Failure entry it builds.                                              *)

failureOfColors(test, attempts) ==
    [title |-> Suite.title[test],
     message |-> "",
     stack |-> combinedStackOf(finalAttemptOf(attempts)),
     timeTaken |-> finalAttemptOf(attempts).duration,
     isTimeout |-> isTimeoutOf(finalAttemptOf(attempts))]

tallyRecordColors(tally, record) ==
    LET finalOutcome == outcome(record.test)
        counted == [tally EXCEPT !.testCount = @ + 1,
                                 !.totalRetries = @ + testRetriesOf(record.attempts)]
    IN  IF countsAsPassed(finalOutcome)
        THEN [counted EXCEPT !.passedCount = @ + 1,
                             !.passedDurations = @ \o passedDurationsOf(record.attempts)]
        ELSE IF countsAsFailed(finalOutcome)
        THEN [counted EXCEPT !.failedCount = @ + 1,
                             !.failures = Append(@, failureOfColors(record.test, record.attempts))]
        ELSE IF countsAsSkipped(finalOutcome)
        THEN [counted EXCEPT !.skippedCount = @ + 1]
        ELSE counted

RECURSIVE tallyRecordsColors(_, _)
tallyRecordsColors(records, tally) ==
    IF records = <<>> THEN tally
    ELSE tallyRecordsColors(Tail(records), tallyRecordColors(tally, Head(records)))

onEndColors ==
    LET endTime == now
        tally == tallyRecordsColors(testRecords, emptyTally)
        averageTime == averageTimeOf(tally.passedDurations)
        slowestTest == slowestTestOf(tally.passedDurations)
    IN  /\ stdout' =
              IF failurePath(tally.failures)
              THEN Some([line |-> "tests failed", failed |-> Len(tally.failures),
                         of |-> tally.testCount, passed |-> tally.passedCount])
              ELSE Some([line |-> "all tests passed", of |-> tally.testCount])
        /\ testResultsJson' =
              Append(testResultsJson,
                     writeJsonSummary(endTime, totalTimeOf(endTime), averageTime, slowestTest,
                                      tally.testCount, tally.passedCount, tally.failedCount,
                                      tally.skippedCount, tally.totalRetries,
                                      IF failurePath(tally.failures) THEN tally.failures ELSE <<>>))
        /\ exitCode' = Some(IF failurePath(tally.failures) THEN 1 ELSE 0)
        /\ UNCHANGED reporterVars

ColorsEnd ==
    /\ phase = "running"
    /\ onEndColors
    /\ phase' = "exited"
    /\ now' = now + TickMs
    /\ UNCHANGED <<run, results>>
    /\ UNCHANGED variantVars

InitColors == Construct("colors")

NextColors == RunBegin \/ RunError \/ RunTestEnd \/ ColorsEnd

SpecColors == InitColors /\ [][NextColors]_vars

-----------------------------------------------------------------------------
(* The counter-based variant (src/unnamed/part_002): it keeps no attempts,   *)
(* only the counters passedCount and failedCount and the list failures,      *)
(* all three updated by onTestEnd.                                           *)

\* (ms / 1000).toFixed(2), for a whole number of milliseconds; a tie is
\* rounded up
toFixed2(ms) ==
    LET hundredths == (ms + 5) \div 10
    IN  ToString(hundredths \div 100) \o "."
           \o (IF hundredths % 100 < 10 THEN "0" ELSE "") \o ToString(hundredths % 100)

counterFailure(test, result) ==
    [title |-> Suite.title[test],
     message |-> join([i \in DOMAIN result.errors |->
                          OrElse(result.errors[i].message, "No error message available.")], "\n"),
     stack |-> join([i \in DOMAIN result.errors |->
                        OrElse(result.errors[i].stack, "No stack trace available.")], "\n"),
     timeTaken |-> toFixed2(result.duration)]

onBeginCounter ==
    /\ startTime' = now
    /\ UNCHANGED <<testRecords, setupFailures, environmentUrl, outputVars, variantVars>>

onErrorCounter(error) ==
    /\ setupFailures' = Append(setupFailures, [message |-> error.message, stack |-> error.stack])
    /\ UNCHANGED <<testRecords, startTime, environmentUrl, outputVars, variantVars>>

onTestEndCounter(test, result) ==
    /\ IF result.status = "passed"
       THEN /\ passedCount' = IF result.retry # 0 THEN passedCount ELSE passedCount + 1
            /\ UNCHANGED <<failedCount, thisFailures>>
       ELSE IF result.status = "failed" \/ result.status = "timedOut"
       THEN IF result.retry # 0
            THEN UNCHANGED <<passedCount, failedCount, thisFailures>>
            ELSE /\ failedCount' = failedCount + 1
                 /\ thisFailures' = Append(thisFailures, counterFailure(test, result))
                 /\ UNCHANGED passedCount
       ELSE UNCHANGED <<passedCount, failedCount, thisFailures>>
    /\ UNCHANGED <<testRecords, setupFailures, startTime, environmentUrl, outputVars>>

onEndCounter ==
    LET endTime == now
        totalTime == toFixed2(endTime - startTime)
        totalTests == passedCount + failedCount
    IN  /\ stdout' =
              IF Len(thisFailures) > 0
              THEN Some([line |-> "tests failed", failed |-> Len(thisFailures),
                         of |-> totalTests, passed |-> passedCount, totalTime |-> totalTime])
              ELSE Some([line |-> "all tests passed", of |-> totalTests, totalTime |-> totalTime])
        /\ exitCode' = Some(IF Len(thisFailures) > 0 THEN 1 ELSE 0)
        /\ UNCHANGED <<testResultsJson, reporterVars, variantVars>>

CounterBegin ==
    /\ phase = "constructed"
    /\ onBeginCounter
    /\ phase' = "running"
    /\ now' = now + TickMs
    /\ UNCHANGED <<run, results>>

CounterError ==
    /\ phase = "running"
    /\ Len(setupFailures) < MaxSetupErrors
    /\ onErrorCounter(RuntimeError)
    /\ now' = now + TickMs
    /\ UNCHANGED <<run, results, phase>>

CounterTestEnd ==
    \E test \in Tests, r \in Menu :
        /\ phase = "running"
        /\ attemptsDelivered(Tests) < Budget
        /\ results' = [results EXCEPT ![test] = Append(@, r.status)]
        /\ onTestEndCounter(test, [status |-> r.status, duration |-> r.duration,
                                   errors |-> r.errors, retry |-> Len(results[test])])
        /\ now' = now + TickMs
        /\ UNCHANGED <<run, phase>>

CounterEnd ==
    /\ phase = "running"
    /\ onEndCounter
    /\ phase' = "exited"
    /\ now' = now + TickMs
    /\ UNCHANGED <<run, results>>

InitCounter == Construct("counter")

NextCounter == CounterBegin \/ CounterError \/ CounterTestEnd \/ CounterEnd

SpecCounter == InitCounter /\ [][NextCounter]_vars

-----------------------------------------------------------------------------
(* The logger-based (winston) variant (src/src/index.ts, second class, lines *)
(* 328-437): it keeps a Map from a test's title to the details of a failed   *)
(* attempt, written by onTestEnd, and lists the Map at the end of the run.   *)
(* It has no onError and does not end the process.                           *)

\* String.prototype.indexOf, from 1; 0 when sub does not occur in s
indexOf(s, sub) ==
    IF includes(s, sub)
    THEN CHOOSE i \in 1..(Len(s) - Len(sub) + 1) :
            /\ SubSeq(s, i, i + Len(sub) - 1) = sub
            /\ \A k \in 1..(i - 1) : SubSeq(s, k, k + Len(sub) - 1) # sub
    ELSE 0

\* s.replace(pattern, ''), for a string pattern: its first occurrence removed
removeFirst(s, pattern) ==
    IF indexOf(s, pattern) = 0 THEN s
    ELSE SubSeq(s, 1, indexOf(s, pattern) - 1)
            \o SubSeq(s, indexOf(s, pattern) + Len(pattern), Len(s))

WhiteSpace == {" ", "\n", "\t", "\r"}

\* String.prototype.trim
RECURSIVE trim(_)
trim(s) ==
    IF s = "" THEN s
    ELSE IF SubSeq(s, 1, 1) \in WhiteSpace THEN trim(SubSeq(s, 2, Len(s)))
    ELSE IF SubSeq(s, Len(s), Len(s)) \in WhiteSpace THEN trim(SubSeq(s, 1, Len(s) - 1))
    ELSE s

\* Map.prototype.set: the value of an existing key replaced in place, a new
\* key added at the end
mapSet(entries, key, value) ==
    IF \E i \in DOMAIN entries : entries[i].key = key
    THEN [i \in DOMAIN entries |->
             IF entries[i].key = key THEN [key |-> key, value |-> value] ELSE entries[i]]
    ELSE Append(entries, [key |-> key, value |-> value])

loggerFailure(failure, duration) ==
    LET message == OrElse(failure.message, "")
        stack == OrElse(failure.stack, "")
    IN  [message |-> message,
         stack |-> trim(removeFirst(stack, message)),
         timeTaken |-> toFixed2(duration)]

onBeginLogger ==
    /\ startTime' = now
    /\ UNCHANGED <<testRecords, setupFailures, environmentUrl, outputVars, variantVars>>

onTestEndLogger(test, result) ==
    /\ thisFailures' =
          IF result.status = "failed" /\ result.errors # <<>>
          THEN mapSet(thisFailures, Suite.title[test],
                      loggerFailure(result.errors[1], result.duration))
          ELSE thisFailures
    /\ UNCHANGED <<passedCount, failedCount>>
    /\ UNCHANGED <<testRecords, setupFailures, startTime, environmentUrl, outputVars>>

onEndLogger ==
    LET endTime == now
        totalTime == toFixed2(endTime - startTime)
    IN  /\ stdout' =
              IF Len(thisFailures) > 0
              THEN Some([line |-> "Summary of Failures", listed |-> thisFailures,
                         totalTime |-> totalTime])
              ELSE Some([line |-> "All Tests Passed", listed |-> <<>>, totalTime |-> totalTime])
        /\ UNCHANGED <<testResultsJson, exitCode, reporterVars, variantVars>>

LoggerBegin ==
    /\ phase = "constructed"
    /\ onBeginLogger
    /\ phase' = "running"
    /\ now' = now + TickMs
    /\ UNCHANGED <<run, results>>

LoggerTestEnd ==
    \E test \in Tests, r \in Menu :
        /\ phase = "running"
        /\ attemptsDelivered(Tests) < Budget
        /\ results' = [results EXCEPT ![test] = Append(@, r.status)]
        /\ onTestEndLogger(test, [status |-> r.status, duration |-> r.duration,
                                  errors |-> r.errors, retry |-> Len(results[test])])
        /\ now' = now + TickMs
        /\ UNCHANGED <<run, phase>>

\* onEnd returns and the runner ends the process
LoggerEnd ==
    /\ phase = "running"
    /\ onEndLogger
    /\ phase' = "exited"
    /\ now' = now + TickMs
    /\ UNCHANGED <<run, results>>

InitLogger == Construct("logger")

NextLogger == LoggerBegin \/ LoggerTestEnd \/ LoggerEnd

SpecLogger == InitLogger /\ [][NextLogger]_vars

-----------------------------------------------------------------------------
(* The reporter's arithmetic as the engine performs it. A JavaScript number  *)
(* is an IEEE 754 binary64 value: every division and addition of onTestEnd   *)
(* and onEnd is rounded to 53 significant bits, ties to even. A non-negative *)
(* number is [m, e]: m its 53-bit significand, a whole number written in     *)
(* base 2^16 with the most significant digit first, and e the weight of its  *)
(* last bit, so that its value is m * 2^e; zero has no digits. The callbacks *)
(* below are those of src/src/index.ts with this arithmetic in place of      *)
(* exact fractions.                                                          *)

MantissaBits == 53
LimbBits == 16
LimbBase == 65536
\* digits kept below the quotient of a division before it is rounded
ExtraLimbs == 4

zeroBinary64 == [m |-> <<>>, e |-> 0]

zeroLimbs(k) == [i \in 1..k |-> 0]

\* leading zero digits removed
strip(limbs) ==
    IF \A i \in DOMAIN limbs : limbs[i] = 0 THEN <<>>
    ELSE SubSeq(limbs,
                CHOOSE i \in DOMAIN limbs :
                    limbs[i] # 0 /\ \A j \in 1..(i - 1) : limbs[j] = 0,
                Len(limbs))

\* the digits of a whole number below 2^31
limbsOf(n) == strip(<<n \div LimbBase, n % LimbBase>>)

\* the number of bits of a whole number without leading zero digits
bitLength(limbs) ==
    IF limbs = <<>> THEN 0
    ELSE LimbBits * (Len(limbs) - 1)
            + (CHOOSE k \in 1..LimbBits : 2^(k - 1) <= limbs[1] /\ limbs[1] < 2^k)

\* long division by a divisor of at most 2^15: quotient digits and remainder
RECURSIVE divLimbs(_, _, _, _)
divLimbs(limbs, n, rem, q) ==
    IF limbs = <<>> THEN [q |-> q, r |-> rem]
    ELSE divLimbs(Tail(limbs), n, (rem * LimbBase + Head(limbs)) % n,
                  Append(q, (rem * LimbBase + Head(limbs)) \div n))

\* product by a factor of at most 2^15
RECURSIVE mulLimbs(_, _, _)
mulLimbs(limbs, f, carry) ==
    IF limbs = <<>> THEN <<carry>>
    ELSE Append(mulLimbs(SubSeq(limbs, 1, Len(limbs) - 1), f,
                         (limbs[Len(limbs)] * f + carry) \div LimbBase),
                (limbs[Len(limbs)] * f + carry) % LimbBase)

\* sum of two whole numbers
RECURSIVE addLimbs(_, _, _)
addLimbs(a, b, carry) ==
    IF a = <<>> /\ b = <<>> THEN <<carry>>
    ELSE LET x == IF a = <<>> THEN 0 ELSE a[Len(a)]
             y == IF b = <<>> THEN 0 ELSE b[Len(b)]
             restA == IF a = <<>> THEN a ELSE SubSeq(a, 1, Len(a) - 1)
             restB == IF b = <<>> THEN b ELSE SubSeq(b, 1, Len(b) - 1)
         IN  Append(addLimbs(restA, restB, (x + y + carry) \div LimbBase),
                    (x + y + carry) % LimbBase)

\* limbs * 2^s
shiftLeft(limbs, s) ==
    strip(mulLimbs(limbs, 2^(s % LimbBits), 0)) \o zeroLimbs(s \div LimbBits)

\* limbs \div 2^s, and whether bits were lost
shiftRight(limbs, s) ==
    LET w == s \div LimbBits
        d == divLimbs(SubSeq(limbs, 1, Len(limbs) - w), 2^(s % LimbBits), 0, <<>>)
    IN  [q |-> strip(d.q),
         inexact |-> d.r # 0 \/ \E i \in (Len(limbs) - w + 1)..Len(limbs) : limbs[i] # 0]

\* round to nearest, ties to even: the binary64 value nearest to
\* limbs * 2^e (plus a non-zero fraction of the last bit when sticky)
roundToBinary64(limbs, e, sticky) ==
    IF limbs = <<>> THEN zeroBinary64
    ELSE IF bitLength(limbs) <= MantissaBits
    THEN [m |-> shiftLeft(limbs, MantissaBits - bitLength(limbs)),
          e |-> e - (MantissaBits - bitLength(limbs))]
    ELSE LET shift == bitLength(limbs) - MantissaBits
             withGuard == shiftRight(limbs, shift - 1)
             guard == withGuard.q[Len(withGuard.q)] % 2
             keep == shiftRight(withGuard.q, 1).q
             up == guard = 1 /\ (sticky \/ withGuard.inexact \/ keep[Len(keep)] % 2 = 1)
             rounded == IF up THEN strip(addLimbs(keep, <<1>>, 0)) ELSE keep
         IN  IF bitLength(rounded) > MantissaBits
             THEN [m |-> shiftRight(rounded, 1).q, e |-> e + shift + 1]
             ELSE [m |-> rounded, e |-> e + shift]

\* n / k of two whole numbers (result.duration / 1000)
divideWhole(n, k) ==
    LET d == divLimbs(limbsOf(n) \o zeroLimbs(ExtraLimbs), k, 0, <<>>)
    IN  roundToBinary64(strip(d.q), 0 - LimbBits * ExtraLimbs, d.r # 0)

\* a / k of a number by a whole number (sum / passedDurations.length)
divideBinary64(a, k) ==
    LET d == divLimbs(a.m \o zeroLimbs(ExtraLimbs), k, 0, <<>>)
    IN  roundToBinary64(strip(d.q), a.e - LimbBits * ExtraLimbs, d.r # 0)

\* a + b
addBinary64(a, b) ==
    IF a.m = <<>> THEN b
    ELSE IF b.m = <<>> THEN a
    ELSE LET e == IF a.e < b.e THEN a.e ELSE b.e
         IN  roundToBinary64(strip(addLimbs(shiftLeft(a.m, a.e - e), shiftLeft(b.m, b.e - e), 0)),
                             e, FALSE)

\* a <= b
leBinary64(a, b) ==
    IF a.m = <<>> THEN TRUE
    ELSE IF b.m = <<>> THEN FALSE
    ELSE IF a.e # b.e THEN a.e < b.e
    ELSE \/ a.m = b.m
         \/ \E i \in DOMAIN a.m :
               a.m[i] < b.m[i] /\ \A j \in 1..(i - 1) : a.m[j] = b.m[j]

\* passedDurations.reduce((a, b) => a + b, 0)
RECURSIVE sumBinary64(_, _)
sumBinary64(nums, acc) ==
    IF nums = <<>> THEN acc ELSE sumBinary64(Tail(nums), addBinary64(acc, Head(nums)))

\* Math.max(...passedDurations)
RECURSIVE maxBinary64(_)
maxBinary64(nums) ==
    IF Len(nums) = 1 THEN nums[1]
    ELSE IF leBinary64(nums[1], maxBinary64(Tail(nums))) THEN maxBinary64(Tail(nums))
    ELSE nums[1]

attemptInfoBinary64(result) ==
    [status |-> result.status,
     duration |-> divideWhole(result.duration, MsPerSecond),
     errors |-> [i \in DOMAIN result.errors |-> storedError(result.errors[i])]]

averageTimeBinary64(passedDurations) ==
    IF Len(passedDurations) > 0
    THEN divideBinary64(sumBinary64(passedDurations, zeroBinary64), Len(passedDurations))
    ELSE zeroBinary64

slowestTestBinary64(passedDurations) ==
    IF Len(passedDurations) > 0 THEN maxBinary64(passedDurations) ELSE zeroBinary64

onTestEndBinary64(test, result) ==
    /\ testRecords' =
          pushAttempt(ensureRecord(testRecords, Suite.title[test], test),
                      Suite.title[test], attemptInfoBinary64(result))
    /\ UNCHANGED <<setupFailures, startTime, environmentUrl, outputVars>>

onEndBinary64 ==
    LET endTime == now
        totalTime == divideWhole(endTime - startTime, MsPerSecond)
        tally == tallyRecords(testRecords, emptyTally)
        averageTime == averageTimeBinary64(tally.passedDurations)
        slowestTest == slowestTestBinary64(tally.passedDurations)
    IN  /\ stdout' =
              IF failurePath(tally.failures)
              THEN Some([line |-> "tests failed", failed |-> Len(tally.failures),
                         of |-> tally.testCount, passed |-> tally.passedCount])
              ELSE Some([line |-> "all tests passed", of |-> tally.testCount])
        /\ testResultsJson' =
              Append(testResultsJson,
                     writeJsonSummary(endTime, totalTime, averageTime, slowestTest,
                                      tally.testCount, tally.passedCount, tally.failedCount,
                                      tally.skippedCount, tally.totalRetries,
                                      IF failurePath(tally.failures) THEN tally.failures ELSE <<>>))
        /\ exitCode' = Some(IF failurePath(tally.failures) THEN 1 ELSE 0)
        /\ UNCHANGED reporterVars

Binary64TestEnd ==
    \E test \in Tests, r \in Menu :
        /\ phase = "running"
        /\ attemptsDelivered(Tests) < Budget
        /\ results' = [results EXCEPT ![test] = Append(@, r.status)]
        /\ onTestEndBinary64(test, [status |-> r.status, duration |-> r.duration,
                                    errors |-> r.errors, retry |-> Len(results[test])])
        /\ now' = now + TickMs
        /\ UNCHANGED <<run, phase>>
        /\ UNCHANGED variantVars

Binary64End ==
    /\ phase = "running"
    /\ onEndBinary64
    /\ phase' = "exited"
    /\ now' = now + TickMs
    /\ UNCHANGED <<run, results>>
    /\ UNCHANGED variantVars

InitBinary64 == Construct("binary64")

NextBinary64 == RunBegin \/ RunError \/ Binary64TestEnd \/ Binary64End

SpecBinary64 == InitBinary64 /\ [][NextBinary64]_vars

-----------------------------------------------------------------------------
(* Properties of the run-end reduction *)

Exited == phase = "exited"

\* the summary in test-results.json
Summary == testResultsJson[Len(testResultsJson)]

RecordOf(title) == testRecords[CHOOSE i \in DOMAIN testRecords : testRecords[i].key = title]

StatusesOf(r) == [i \in DOMAIN r.attempts |-> r.attempts[i].status]

LastOf(r) == r.attempts[Len(r.attempts)]

MessagesOf(attempt) == [i \in DOMAIN attempt.errors |-> attempt.errors[i].message]

\* the Failure entries of the summary that carry the title
EntriesTitled(title) == {i \in DOMAIN Summary.failures : Summary.failures[i].title = title}

\* what the loop body adds to the counts for one record
Contribution(r) == tallyRecord(emptyTally, r)

\* the record belongs to one test only, and that test is expected to pass
Ordinary(r) ==
    /\ Suite.expectedStatus[r.test] = "passed"
    /\ Len(results[r.test]) = Len(r.attempts)

InPassedOnly(c) == c.passedCount = 1 /\ c.failedCount = 0 /\ c.skippedCount = 0
InFailedOnly(c) == c.passedCount = 0 /\ c.failedCount = 1 /\ c.skippedCount = 0
InSkippedOnly(c) == c.passedCount = 0 /\ c.failedCount = 0 /\ c.skippedCount = 1

\* C1: at run end the bucket a test is counted in is decided by the status of
\* its last recorded attempt alone, whatever came before, also when an earlier
\* attempt passed and the last one failed: a test whose last attempt failed or
\* timed out is counted as failed and has a Failure entry. Stated for the tests
\* that are expected to pass and share their title with no other test.
C1_LastAttemptDecides ==
    Exited =>
        \A i \in DOMAIN testRecords :
            LET r == testRecords[i]
            IN  (Ordinary(r) /\ LastOf(r).status \in {"failed", "timedOut"}) =>
                    /\ InFailedOnly(Contribution(r))
                    /\ Cardinality(EntriesTitled(r.key)) = 1

\* C2: the three-test scenario. T1 = [passed 2.0s], T2 = [failed "boom",
\* passed 1.5s], T3 = [failed "timeout exceeded"] gives totalTests 3, passed 2,
\* failed 1, skipped 0, totalRetries 1, one Failure entry for T3 (its message,
\* isTimeout true, timeTaken the attempt's duration), average 1.75 s, slowest 2 s.
ScenarioRecorded ==
    /\ Len(testRecords) = 3
    /\ \A title \in {"T1", "T2", "T3"} : \E i \in DOMAIN testRecords : testRecords[i].key = title
    /\ RecordOf("T1").attempts =
          <<[status |-> "passed", duration |-> [n |-> 2, d |-> 1], errors |-> <<>>]>>
    /\ StatusesOf(RecordOf("T2")) = <<"failed", "passed">>
    /\ MessagesOf(RecordOf("T2").attempts[1]) = <<"boom">>
    /\ RecordOf("T2").attempts[2].duration = [n |-> 3, d |-> 2]
    /\ StatusesOf(RecordOf("T3")) = <<"failed">>
    /\ MessagesOf(RecordOf("T3").attempts[1]) = <<"timeout exceeded">>

C2_Scenario ==
    (Exited /\ ScenarioRecorded) =>
        /\ Summary.totalTests = 3
        /\ Summary.passed = 2
        /\ Summary.failed = 1
        /\ Summary.skipped = 0
        /\ Summary.totalRetries = 1
        /\ Len(Summary.failures) = 1
        /\ Summary.failures[1].title = "T3"
        /\ Summary.failures[1].message = "timeout exceeded"
        /\ Summary.failures[1].isTimeout = TRUE
        /\ Summary.failures[1].timeTaken = RecordOf("T3").attempts[1].duration
        /\ Summary.averageTestDurationSeconds = [n |-> 7, d |-> 4]
        /\ Summary.slowestTestDurationSeconds = [n |-> 2, d |-> 1]

C2_Witness == Exited /\ ScenarioRecorded

\* C3: when onEnd completes, the exit status is 0 if the summary's failed count
\* is 0 and 1 otherwise.
C3_ExitStatus ==
    Exited =>
        /\ Summary.failed = 0 => exitCode = Some(0)
        /\ Summary.failed # 0 => exitCode = Some(1)

C3_Witness ==
    /\ Exited
    /\ Summary.failed = 1
    /\ Summary.passed = 1
    /\ exitCode = Some(1)
    /\ setupFailures = <<>>

\* C4: totalRetries is the sum over the records of (attempts - 1), that is, the
\* attempts recorded minus the number of tests, whatever the tests' outcomes.
RECURSIVE RetriesIn(_)
RetriesIn(records) ==
    IF records = <<>> THEN 0
    ELSE (Len(Head(records).attempts) - 1) + RetriesIn(Tail(records))

C4_TotalRetries ==
    Exited =>
        /\ Summary.totalRetries = RetriesIn(testRecords)
        /\ Summary.totalRetries = attemptsDelivered(Tests) - Summary.totalTests

C4_Witness ==
    /\ Exited
    /\ Summary.totalRetries = 2
    /\ Summary.failed = 1
    /\ Summary.totalTests = 1

-----------------------------------------------------------------------------
(* Properties of the Failure entries *)

StackText(e) == IF e.stack = Undefined THEN "" ELSE e.stack[1]

StacksOf(attempt) == [i \in DOMAIN attempt.errors |-> StackText(attempt.errors[i])]

\* the strings, in order, with a newline between neighbours
RECURSIVE Lines(_)
Lines(strs) ==
    IF strs = <<>> THEN ""
    ELSE IF Len(strs) = 1 THEN strs[1]
    ELSE Lines(SubSeq(strs, 1, Len(strs) - 1)) \o "\n" \o strs[Len(strs)]

\* the error messages of the model that contain "timeout" in lower case
TimeoutMessages == {"timeout exceeded", "waiting: timeout 5000ms"}

MentionsTimeout(attempt) ==
    \E i \in DOMAIN attempt.errors : attempt.errors[i].message \in TimeoutMessages

DerivedFrom(f, attempt) ==
    /\ f.message = Lines(MessagesOf(attempt))
    /\ f.stack = Lines(StacksOf(attempt))
    /\ f.timeTaken = attempt.duration
    /\ f.isTimeout = MentionsTimeout(attempt)

\* C5: a test whose final outcome is failure has one Failure entry; its message
\* is the last attempt's error messages joined by newlines in their order, its
\* stack the last attempt's stacks joined likewise, its timeTaken the last
\* attempt's duration; the errors of earlier attempts do not appear.
C5_FailureFromLastAttempt ==
    Exited =>
        /\ \A i \in DOMAIN testRecords :
              outcome(testRecords[i].test) = "unexpected" =>
                  Cardinality(EntriesTitled(testRecords[i].key)) = 1
        /\ \A j \in DOMAIN Summary.failures :
              LET f == Summary.failures[j]
                  last == LastOf(RecordOf(f.title))
              IN  /\ f.message = Lines(MessagesOf(last))
                  /\ f.stack = Lines(StacksOf(last))
                  /\ f.timeTaken = last.duration

C5_Witness ==
    /\ Exited
    /\ \E j \in DOMAIN Summary.failures :
          LET r == RecordOf(Summary.failures[j].title)
          IN  /\ Len(r.attempts) = 2
              /\ Len(LastOf(r).errors) = 2
              /\ Len(r.attempts[1].errors) = 1
              /\ Summary.failures[j].message = "waiting: timeout 5000ms\nNo error message"
              /\ Summary.failures[j].stack = "\n    at b.spec.ts:9:1"

C7_IsTimeout ==
    Exited =>
        \A j \in DOMAIN Summary.failures :
            Summary.failures[j].isTimeout =
                MentionsTimeout(LastOf(RecordOf(Summary.failures[j].title)))

C7_Witness ==
    /\ Exited
    /\ \E j, k \in DOMAIN Summary.failures :
          LET r == RecordOf(Summary.failures[j].title)
              q == RecordOf(Summary.failures[k].title)
          IN  /\ Summary.failures[j].isTimeout
              /\ LastOf(r).status = "failed"
              /\ Len(r.attempts) = 2
              /\ ~MentionsTimeout(r.attempts[1])
              /\ ~Summary.failures[k].isTimeout
              /\ LastOf(q).status = "timedOut"

-----------------------------------------------------------------------------
(* Properties of the duration statistics *)

\* a stored duration in milliseconds
MsOf(q) == (q.n * 1000) \div q.d

\* the passed attempts, as <<record, attempt>> positions, of the records at is
PassedAttempts(is) ==
    {p \in is \X (1..Budget) :
        /\ p[2] \in DOMAIN testRecords[p[1]].attempts
        /\ testRecords[p[1]].attempts[p[2]].status = "passed"}

DurationAt(p) == testRecords[p[1]].attempts[p[2]].duration

RECURSIVE TotalMs(_)
TotalMs(ps) ==
    IF ps = {} THEN 0
    ELSE LET p == CHOOSE x \in ps : TRUE
         IN  MsOf(DurationAt(p)) + TotalMs(ps \ {p})

\* average and slowest are the mean and the maximum of the durations at ps
StatisticsOver(ps) ==
    IF ps = {}
    THEN /\ Summary.averageTestDurationSeconds = [n |-> 0, d |-> 1]
         /\ Summary.slowestTestDurationSeconds = [n |-> 0, d |-> 1]
    ELSE /\ Summary.averageTestDurationSeconds.n * 1000 * Cardinality(ps)
               = TotalMs(ps) * Summary.averageTestDurationSeconds.d
         /\ \E p \in ps : DurationAt(p) = Summary.slowestTestDurationSeconds
         /\ \A p \in ps : MsOf(DurationAt(p)) <= MsOf(Summary.slowestTestDurationSeconds)

-----------------------------------------------------------------------------
(* Properties of particular attempt histories *)

\* C9: a test whose recorded attempts are [failed, failed, passed] is counted
\* as passed and not as failed, has no Failure entry, adds 2 to totalRetries,
\* and the duration of its passing attempt enters the duration statistics.
C9_FailedFailedPassed ==
    Exited =>
        \A i \in DOMAIN testRecords :
            LET r == testRecords[i]
            IN  StatusesOf(r) = <<"failed", "failed", "passed">> =>
                    /\ InPassedOnly(Contribution(r))
                    /\ EntriesTitled(r.key) = {}
                    /\ Contribution(r).totalRetries = 2
                    /\ Contribution(r).passedDurations = <<r.attempts[3].duration>>

C11_SingleSkipped ==
    Exited =>
        \A i \in DOMAIN testRecords :
            LET r == testRecords[i]
            IN  StatusesOf(r) = <<"skipped">> =>
                    /\ outcome(r.test) = "skipped"
                    /\ InSkippedOnly(Contribution(r))
                    /\ EntriesTitled(r.key) = {}
                    /\ Contribution(r).passedDurations = <<>>

C11_Witness ==
    /\ Exited
    /\ Len(testRecords) = 2
    /\ \E i \in DOMAIN testRecords : StatusesOf(testRecords[i]) = <<"skipped">>
    /\ Summary.skipped = 1
    /\ Summary.passed = 1
    /\ Summary.averageTestDurationSeconds = [n |-> 2, d |-> 1]

\* C12: the empty run. When onEnd is invoked with no attempt ever recorded,
\* the summary has totalTests, passed, failed, skipped, totalRetries, the
\* average and the slowest duration all 0 and failures empty, and the exit
\* status is 0.
C12_EmptyRun ==
    (Exited /\ attemptsDelivered(Tests) = 0) =>
        /\ Summary.totalTests = 0
        /\ Summary.passed = 0
        /\ Summary.failed = 0
        /\ Summary.skipped = 0
        /\ Summary.totalRetries = 0
        /\ Summary.averageTestDurationSeconds = [n |-> 0, d |-> 1]
        /\ Summary.slowestTestDurationSeconds = [n |-> 0, d |-> 1]
        /\ Summary.failures = <<>>
        /\ exitCode = Some(0)

C12_Witness ==
    /\ Exited
    /\ attemptsDelivered(Tests) = 0
    /\ testRecords = <<>>
    /\ setupFailures # <<>>
    /\ Len(testResultsJson) = 1

-----------------------------------------------------------------------------
(* Properties of the reduction as a whole *)

\* the values the run-end reduction computes from the store as it is now
Reduction ==
    LET tally == tallyRecords(testRecords, emptyTally)
    IN  [totalTests |-> tally.testCount,
         passed |-> tally.passedCount,
         failed |-> tally.failedCount,
         skipped |-> tally.skippedCount,
         totalRetries |-> tally.totalRetries,
         failures |-> tally.failures,
         averageTestDurationSeconds |-> averageTimeOf(tally.passedDurations),
         slowestTestDurationSeconds |-> slowestTestOf(tally.passedDurations)]

\* the same values, as a summary holds them
ValuesOf(summary) ==
    [totalTests |-> summary.totalTests,
     passed |-> summary.passed,
     failed |-> summary.failed,
     skipped |-> summary.skipped,
     totalRetries |-> summary.totalRetries,
     failures |-> summary.failures,
     averageTestDurationSeconds |-> summary.averageTestDurationSeconds,
     slowestTestDurationSeconds |-> summary.slowestTestDurationSeconds]

\* the number of attempts the store holds
RECURSIVE attemptsStored(_)
attemptsStored(records) ==
    IF records = <<>> THEN 0
    ELSE Len(Head(records).attempts) + attemptsStored(Tail(records))

\* C13: the run-end reduction does not modify the store it reads: after onEnd
\* the store still holds every attempt delivered, and the reduction run again
\* over the store onEnd leaves behind yields the values of the first run, the
\* ones in the written summary (totalTests, passed, failed, skipped,
\* totalRetries, failures, average and slowest duration).
C13_ReductionIdempotent ==
    Exited =>
        /\ attemptsStored(testRecords) = attemptsDelivered(Tests)
        /\ ValuesOf(Summary) = Reduction

C13_Witness ==
    /\ Exited
    /\ Len(testRecords) = 2
    /\ Summary.totalRetries = 1
    /\ Summary.failed = 1
    /\ Summary.passed = 1
    /\ ValuesOf(Summary) = Reduction

-----------------------------------------------------------------------------
(* Properties of the attempt store *)

\* the tests of which the runner has delivered at least one attempt
Observed == {t \in Tests : results[t] # <<>>}

TestsTitled(title) == {t \in Tests : Suite.title[t] = title}

\* the attempts the store holds under the title: none when it has no record
AttemptsIn(records, title) ==
    IF \E i \in DOMAIN records : records[i].key = title
    THEN records[CHOOSE i \in DOMAIN records : records[i].key = title].attempts
    ELSE <<>>

\* C14: test identity. Attempts of two different tests are never stored in the
\* same record and all attempts of one test are in one record, so that
\* totalTests is the number of distinct tests of which an attempt was
\* observed, also when two different tests carry the same title.
C14_TestIdentity ==
    /\ Len(testRecords) = Cardinality(Observed)
    /\ \A i \in DOMAIN testRecords :
          Len(testRecords[i].attempts) = Len(results[testRecords[i].test])
    /\ Exited => Summary.totalTests = Cardinality(Observed)

\* the sequence s is the sequences seqs[t], t in DOMAIN seqs, interleaved: each
\* seqs[t] is in s in its own order, and s has no other element
RECURSIVE IsInterleaving(_, _)
IsInterleaving(s, seqs) ==
    IF s = <<>> THEN \A t \in DOMAIN seqs : seqs[t] = <<>>
    ELSE \E t \in DOMAIN seqs :
            /\ seqs[t] # <<>>
            /\ seqs[t][Len(seqs[t])] = s[Len(s)]
            /\ IsInterleaving(SubSeq(s, 1, Len(s) - 1),
                              [seqs EXCEPT ![t] = SubSeq(@, 1, Len(@) - 1)])

\* C15: whatever the interleaving of the onTestEnd callbacks of the tests,
\* once the callbacks have returned the store holds exactly one stored attempt
\* per callback (none lost, none duplicated, no record replaced by a fresh
\* empty one), and the attempts of each test are in the store in the order
\* their callbacks arrived.
C15_NoAttemptLost ==
    /\ attemptsStored(testRecords) = attemptsDelivered(Tests)
    /\ \A t \in Observed : has(testRecords, Suite.title[t])
    /\ \A i \in DOMAIN testRecords :
          /\ \A j \in DOMAIN testRecords : testRecords[j].key = testRecords[i].key => j = i
          /\ IsInterleaving(StatusesOf(testRecords[i]),
                            [t \in TestsTitled(testRecords[i].key) |-> results[t]])

C15_Witness ==
    /\ phase = "running"
    /\ results[1] = <<"passed", "timedOut">>
    /\ results[3] = <<"failed">>
    /\ StatusesOf(RecordOf("T1")) = <<"passed", "failed", "timedOut">>

\* the stored attempt a holds the result r: its status, its duration in
\* seconds and its errors, a missing or empty message replaced by the placeholder
Holds(a, r) ==
    /\ a.status = r.status
    /\ a.duration.n * 1000 = r.duration * a.duration.d
    /\ Len(a.errors) = Len(r.errors)
    /\ \A k \in DOMAIN r.errors :
          /\ a.errors[k].stack = r.errors[k].stack
          /\ a.errors[k].message =
                IF r.errors[k].message \in {<<>>, <<"">>}
                THEN "No error message"
                ELSE r.errors[k].message[1]

\* C16: onTestEnd appends exactly one attempt to the end of the record of the
\* test's title, creating the record first if it is absent: afterwards the
\* record is one longer than before (1 if it was absent), what it held is
\* kept in front, its last element is the new attempt with the callback's
\* status, duration / 1000 and errors, and no other record has changed.
C16_RecordAttemptAppends ==
    [][\A test \in Tests :
          Len(results'[test]) = Len(results[test]) + 1 =>
              LET title == Suite.title[test]
                  before == AttemptsIn(testRecords, title)
                  after == AttemptsIn(testRecords', title)
              IN  /\ Len(after) = Len(before) + 1
                  /\ SubSeq(after, 1, Len(before)) = before
                  /\ \E r \in Menu :
                        /\ r.status = results'[test][Len(results'[test])]
                        /\ Holds(after[Len(after)], r)
                  /\ Len(testRecords') = Len(testRecords) + (IF before = <<>> THEN 1 ELSE 0)
                  /\ \A i \in DOMAIN testRecords :
                        /\ testRecords'[i].key = testRecords[i].key
                        /\ testRecords[i].key # title => testRecords'[i] = testRecords[i]]_vars

C16_Witness ==
    /\ phase = "running"
    /\ Len(testRecords) = 2
    /\ StatusesOf(testRecords[1]) = <<"failed", "passed">>
    /\ testRecords[1].attempts[1].errors[2].message = "No error message"
    /\ testRecords[1].attempts[2].duration = [n |-> 3, d |-> 2]
    /\ Len(testRecords[2].attempts) = 1

\* C17: an attempt whose retry index is not the number of attempts already
\* recorded for its test (an out-of-order or duplicate index) is rejected with
\* an OrderingError: it is not stored.
C17_OrderingError ==
    [][\A test \in Tests :
          (/\ Len(results'[test]) = Len(results[test]) + 1
           /\ Len(results[test]) # Len(AttemptsIn(testRecords, Suite.title[test])))
              => testRecords' = testRecords]_vars

\* C18: the record invariant. In every state between callbacks every record
\* of the store has a non-empty attempt sequence, and the k-th stored attempt
\* of a record (k from 0) is the attempt the runner reported with retry index k.
C18_RecordInvariant ==
    \A i \in DOMAIN testRecords :
        LET r == testRecords[i]
        IN  /\ r.attempts # <<>>
            /\ \A k \in DOMAIN r.attempts :
                  \E t \in TestsTitled(r.key) :
                      /\ k <= Len(results[t])
                      /\ results[t][k] = r.attempts[k].status

\* the position of the title's record in the store: the order of first observation
IndexOf(title) == CHOOSE i \in DOMAIN testRecords : testRecords[i].key = title

\* C20: the failures list has exactly one entry per test whose final outcome
\* is failure (its last attempt failed or timed out) and none for a test whose
\* last attempt passed, and the entries are in the order in which their tests
\* were first observed. Stated for the tests that are expected to pass and
\* share their title with no other test.
C20_FailuresInFirstObservedOrder ==
    Exited =>
        /\ \A i \in DOMAIN testRecords :
              LET r == testRecords[i]
              IN  Ordinary(r) =>
                      /\ LastOf(r).status \in {"failed", "timedOut"} =>
                              Cardinality(EntriesTitled(r.key)) = 1
                      /\ LastOf(r).status = "passed" => EntriesTitled(r.key) = {}
        /\ \A j, k \in DOMAIN Summary.failures :
              j < k => IndexOf(Summary.failures[j].title) < IndexOf(Summary.failures[k].title)

-----------------------------------------------------------------------------
(* Properties of the run's life cycle *)

\* C21: Finalized is terminal. Nothing is reduced before onEnd is invoked (the
\* outputs of the reduction change only in the step of onEnd, which ends the
\* process), and once onEnd has produced the summary no further attempt is
\* recorded: from the state in which the summary exists on, the store stays
\* what it was when it was reduced.
C21_FinalizedIsTerminal ==
    [][/\ (testResultsJson' # testResultsJson \/ stdout' # stdout \/ exitCode' # exitCode)
            => (phase = "running" /\ phase' = "exited")
       /\ testResultsJson' # <<>> => testRecords' = testRecords
       /\ phase = "exited" => phase' = "exited"]_vars

C21_Witness ==
    /\ Exited
    /\ Len(testResultsJson) = 1
    /\ attemptsStored(testRecords) = 2
    /\ attemptsDelivered(Tests) < Budget

\* C22: in every run the summary is produced at most once. When onEnd is
\* invoked the summary is written exactly once, and the process has exited
\* only with the summary written, on the failure path (exit 1) and on the
\* success path (exit 0); as long as onEnd has not been invoked, so also if
\* the process ends before it, no summary is written.
C22_SummaryWrittenOnce ==
    /\ Len(testResultsJson) <= 1
    /\ phase # "exited" => (testResultsJson = <<>> /\ exitCode = Undefined)
    /\ phase = "exited" => (Len(testResultsJson) = 1 /\ exitCode \in {Some(0), Some(1)})
    /\ exitCode # Undefined => Len(testResultsJson) = 1

C22_Witness ==
    /\ Exited
    /\ exitCode = Some(0)
    /\ Len(testResultsJson) = 1
    /\ Summary.passed = 2
    /\ Summary.failures = <<>>
    /\ Summary.endTime > Summary.startTime

\* C23: attempts are append-only. Across every onBegin, onTestEnd, onError and
\* onEnd call an attempt once stored is never modified, reordered or removed:
\* every record stays at its place in the store, with its key and its test,
\* and its attempt sequence before the call is a prefix of the one after it.
C23_AppendOnly ==
    [][\A i \in DOMAIN testRecords :
          /\ i \in DOMAIN testRecords'
          /\ testRecords'[i].key = testRecords[i].key
          /\ testRecords'[i].test = testRecords[i].test
          /\ Len(testRecords'[i].attempts) >= Len(testRecords[i].attempts)
          /\ SubSeq(testRecords'[i].attempts, 1, Len(testRecords[i].attempts))
                = testRecords[i].attempts]_vars

C23_Witness ==
    /\ Exited
    /\ setupFailures # <<>>
    /\ Len(testRecords) = 2
    /\ StatusesOf(testRecords[1]) = <<"failed", "timedOut">>
    /\ StatusesOf(testRecords[2]) = <<"passed">>

-----------------------------------------------------------------------------
(* Properties of malformed failure data *)

\* C24: malformed failure data is tolerated. A test whose failing last attempt
\* has an empty error list still has a Failure entry, with message and stack
\* empty and isTimeout false, and the reduction completes; an error without a
\* stack adds an empty string to the combined stack; an error without a
\* message is stored with the placeholder 'No error message'. The first part
\* is stated for the tests that are expected to pass and share their title
\* with no other test.
C24_MalformedDataTolerated ==
    /\ \A i \in DOMAIN testRecords :
          \A k \in DOMAIN testRecords[i].attempts :
              \A e \in DOMAIN testRecords[i].attempts[k].errors :
                  testRecords[i].attempts[k].errors[e].message # ""
    /\ Exited =>
          /\ \A j \in DOMAIN Summary.failures :
                Summary.failures[j].stack = Lines(StacksOf(LastOf(RecordOf(Summary.failures[j].title))))
          /\ \A i \in DOMAIN testRecords :
                LET r == testRecords[i]
                IN  (/\ Ordinary(r)
                     /\ LastOf(r).status \in {"failed", "timedOut"}
                     /\ LastOf(r).errors = <<>>) =>
                        /\ Cardinality(EntriesTitled(r.key)) = 1
                        /\ \A j \in EntriesTitled(r.key) :
                              /\ Summary.failures[j].message = ""
                              /\ Summary.failures[j].stack = ""
                              /\ Summary.failures[j].isTimeout = FALSE

-----------------------------------------------------------------------------
(* Properties of the final outcome *)

\* C25 as stated: for a test whose last attempt passed, the final outcome is
\* expected-pass if and only if the record has exactly one attempt, and
\* flaky-pass whenever it has more than one, whatever the earlier attempts
\* were. Stated for the tests that are expected to pass and share their title
\* with no other test.
C25_ExpectedIffSingleAttempt ==
    \A i \in DOMAIN testRecords :
        LET r == testRecords[i]
        IN  (Ordinary(r) /\ LastOf(r).status = "passed") =>
                /\ Len(r.attempts) = 1 => outcome(r.test) = "expected"
                /\ Len(r.attempts) > 1 => outcome(r.test) = "flaky"

\* the test has an attempt before its last one that failed or timed out
FailedBefore(test) ==
    \E k \in 1..(Len(results[test]) - 1) : results[test][k] \in {"failed", "timedOut"}

\* C25 amended: for a test that is expected to pass and whose last attempt
\* passed, the final outcome is flaky-pass if and only if one of its earlier
\* attempts failed or timed out, and expected-pass otherwise, in particular
\* when it has exactly one attempt; either way onEnd counts it as passed.
C25_FlakyIffFailedBefore ==
    \A i \in DOMAIN testRecords :
        LET t == testRecords[i].test
        IN  (/\ Suite.expectedStatus[t] = "passed"
             /\ results[t][Len(results[t])] = "passed") =>
                /\ FailedBefore(t) => outcome(t) = "flaky"
                /\ ~FailedBefore(t) => outcome(t) = "expected"
                /\ Len(results[t]) = 1 => outcome(t) = "expected"
                /\ InPassedOnly(Contribution(testRecords[i]))

C25_Witness ==
    /\ Exited
    /\ results[1] = <<"passed", "passed">>
    /\ results[3] = <<>>
    /\ outcome(1) = "expected"
    /\ Summary.passed = 1
    /\ Summary.totalRetries = 1

-----------------------------------------------------------------------------
(* Properties of the written summary *)

SummaryFields ==
    {"startTime", "endTime", "totalTimeSeconds", "totalTests", "passed", "failed",
     "skipped", "failures", "averageTestDurationSeconds", "slowestTestDurationSeconds",
     "totalRetries", "environmentUrl"}

FailureFields == {"title", "message", "stack", "timeTaken", "isTimeout"}

\* C26: every summary the reporter writes, on the failure path and on the
\* success path, is an object with exactly the twelve fields startTime,
\* endTime, totalTimeSeconds, totalTests, passed, failed, skipped, failures,
\* averageTestDurationSeconds, slowestTestDurationSeconds, totalRetries and
\* environmentUrl, and every element of failures has exactly the fields
\* title, message, stack, timeTaken and isTimeout.
C26_SummaryFields ==
    \A k \in DOMAIN testResultsJson :
        /\ DOMAIN testResultsJson[k] = SummaryFields
        /\ Cardinality(DOMAIN testResultsJson[k]) = 12
        /\ \A j \in DOMAIN testResultsJson[k].failures :
              DOMAIN testResultsJson[k].failures[j] = FailureFields

C26_Witness ==
    /\ Exited
    /\ exitCode = Some(1)
    /\ Len(Summary.failures) = 2
    /\ Summary.environmentUrl = ""
    /\ Summary.failures[1].stack = ""
    /\ DOMAIN Summary.failures[2] = FailureFields

\* C27: totalTimeSeconds is (endTime - startTime) / 1000, where startTime is
\* the timestamp taken at onBegin (the first callback) and endTime the one
\* taken at onEnd; it depends on no attempt's duration, and it is not
\* negative when onBegin preceded onEnd.
C27_TotalTimeSeconds ==
    Exited =>
        /\ Summary.startTime = ClockStart
        /\ Summary.startTime = startTime
        /\ Summary.endTime = now - TickMs
        /\ Summary.totalTimeSeconds.n * 1000
              = (Summary.endTime - Summary.startTime) * Summary.totalTimeSeconds.d
        /\ Summary.totalTimeSeconds.n >= 0
        /\ Summary.totalTimeSeconds.d > 0

C27_Witness ==
    /\ Exited
    /\ Summary.endTime - Summary.startTime = 3 * TickMs
    /\ Len(testRecords) = 1
    /\ StatusesOf(testRecords[1]) = <<"timedOut", "passed">>
    /\ MsOf(testRecords[1].attempts[1].duration) > 3 * TickMs

-----------------------------------------------------------------------------
(* Properties of the summary's counts *)

\* C31: the counts partition the tests: in every summary passed + failed +
\* skipped = totalTests, totalTests is the number of test records, and every
\* record is counted in exactly one of the three buckets.
C31_CountsPartition ==
    /\ \A k \in DOMAIN testResultsJson :
          testResultsJson[k].passed + testResultsJson[k].failed + testResultsJson[k].skipped
              = testResultsJson[k].totalTests
    /\ Exited =>
          /\ Summary.totalTests = Len(testRecords)
          /\ \A i \in DOMAIN testRecords :
                \/ InPassedOnly(Contribution(testRecords[i]))
                \/ InFailedOnly(Contribution(testRecords[i]))
                \/ InSkippedOnly(Contribution(testRecords[i]))

C31_Witness ==
    /\ Exited
    /\ Summary.totalTests = 2
    /\ Summary.skipped = 1
    /\ Summary.failed = 1

\* C32: in every summary written the failed count equals the length of the
\* failures list, on the failure path (the computed failures are written) and
\* on the success path (an empty list is written and failed is 0).
C32_FailedIsLengthOfFailures ==
    \A k \in DOMAIN testResultsJson :
        /\ testResultsJson[k].failed = Len(testResultsJson[k].failures)
        /\ exitCode = Some(0) =>
              testResultsJson[k].failures = <<>> /\ testResultsJson[k].failed = 0
        /\ exitCode = Some(1) => testResultsJson[k].failed > 0

C32_Witness ==
    /\ Exited
    /\ exitCode = Some(1)
    /\ Summary.failed = 2
    /\ Len(Summary.failures) = 2

-----------------------------------------------------------------------------
(* Frame properties of the callbacks *)

\* the records of the store whose test has the given final outcomes
RecordsWith(outcomes) == {i \in DOMAIN testRecords : outcome(testRecords[i].test) \in outcomes}

\* C33: onError has no effect on the reduction: a step that changes
\* setupFailures appends one entry to it and leaves the attempt store, the
\* tests' results, startTime and the outputs unchanged; and whatever
\* setupFailures holds when the run ends, the summary's counts, its failures
\* list and the exit status are those of the attempt store alone (exit 0
\* when no record's test failed).
C33_OnErrorNoEffect ==
    [][/\ setupFailures' # setupFailures =>
             /\ \E e \in {[message |-> RuntimeError.message, stack |-> RuntimeError.stack]} :
                   setupFailures' = Append(setupFailures, e)
             /\ UNCHANGED <<testRecords, results, startTime, environmentUrl, outputVars>>
       /\ (phase = "running" /\ phase' = "exited") =>
             /\ Summary'.totalTests = Len(testRecords)
             /\ Summary'.passed = Cardinality(RecordsWith({"expected", "flaky"}))
             /\ Summary'.failed = Cardinality(RecordsWith({"unexpected"}))
             /\ Summary'.skipped = Cardinality(RecordsWith({"skipped"}))
             /\ Len(Summary'.failures) = Cardinality(RecordsWith({"unexpected"}))
             /\ {Summary'.failures[j].title : j \in DOMAIN Summary'.failures}
                   = {testRecords[i].key : i \in RecordsWith({"unexpected"})}
             /\ exitCode' = Some(IF RecordsWith({"unexpected"}) = {} THEN 0 ELSE 1)]_vars

C33_Witness ==
    /\ Exited
    /\ Len(setupFailures) = 1
    /\ Len(testRecords) = 2
    /\ Summary.failed = 0
    /\ Summary.passed = 1
    /\ exitCode = Some(0)

\* C34: onTestEnd for a test with title X changes only X's record: the
\* records with other titles keep their place and their attempts, no record
\* with another title appears, and startTime, setupFailures and the outputs
\* are unchanged; this holds for every result status, the ones that produce
\* no log line (interrupted) included.
C34_OnTestEndFrame ==
    [][\A t \in Tests :
          results'[t] # results[t] =>
              /\ \A i \in DOMAIN testRecords :
                    testRecords[i].key # Suite.title[t] =>
                        i \in DOMAIN testRecords' /\ testRecords'[i] = testRecords[i]
              /\ \A i \in DOMAIN testRecords' :
                    testRecords'[i].key # Suite.title[t] => i \in DOMAIN testRecords
              /\ \E i \in DOMAIN testRecords' :
                    /\ testRecords'[i].key = Suite.title[t]
                    /\ LastOf(testRecords'[i]).status = results'[t][Len(results'[t])]
              /\ UNCHANGED <<startTime, setupFailures, environmentUrl, outputVars>>]_vars

\* a record of another title was in the store when an interrupted attempt
\* of the second title was recorded
C34_Witness ==
    /\ Len(testRecords) = 2
    /\ Len(testRecords[1].attempts) = 1
    /\ Len(testRecords[2].attempts) = 2
    /\ LastOf(testRecords[2]).status = "interrupted"

-----------------------------------------------------------------------------
(* Properties of the summary's statistics and of the success line *)

\* C35: in every summary 0 <= averageTestDurationSeconds <=
\* slowestTestDurationSeconds (the attempts' durations being non-negative),
\* and both are 0 when no duration of a passed attempt was collected.
C35_AverageAtMostSlowest ==
    Exited =>
        /\ \A k \in DOMAIN testResultsJson :
              /\ leBinary64(zeroBinary64, testResultsJson[k].averageTestDurationSeconds)
              /\ leBinary64(testResultsJson[k].averageTestDurationSeconds,
                            testResultsJson[k].slowestTestDurationSeconds)
        /\ PassedAttempts({i \in DOMAIN testRecords :
                              countsAsPassed(outcome(testRecords[i].test))}) = {} =>
              /\ Summary.averageTestDurationSeconds = zeroBinary64
              /\ Summary.slowestTestDurationSeconds = zeroBinary64

\* C36: the success line 'All N tests passed' is printed only when all N
\* counted tests have a passing final outcome: whenever it is printed,
\* passed = N = totalTests, and it is not printed for a run in which some
\* test was skipped.
C36_AllTestsPassedLine ==
    (Exited /\ stdout[1].line = "all tests passed") =>
        /\ stdout[1].of = Summary.totalTests
        /\ Summary.passed = Summary.totalTests
        /\ Summary.skipped = 0

-----------------------------------------------------------------------------
(* Properties of the reporter variants *)

\* the test's last attempt failed or timed out
EndedFailed(test) ==
    /\ results[test] # <<>>
    /\ results[test][Len(results[test])] \in {"failed", "timedOut"}

\* C28: in the logger-based variant the end-of-run 'Summary of Failures'
\* lists a test if and only if the test ended the run failed (its last
\* attempt failed or timed out): a test that failed and then passed on a
\* retry is not listed, a test whose attempts timed out is listed, and the
\* 'All Tests Passed' branch is taken exactly when no test ended failed. The
\* first part is stated for the tests that share their title with no other
\* test that ran.
C28_LoggerSummaryOfFailures ==
    Exited =>
        /\ \A t \in Observed :
              (\A u \in Observed : Suite.title[u] = Suite.title[t] => u = t) =>
                  (EndedFailed(t) <=>
                      \E j \in DOMAIN stdout[1].listed : stdout[1].listed[j].key = Suite.title[t])
        /\ stdout[1].line = "All Tests Passed" <=> ~(\E t \in Observed : EndedFailed(t))

\* C29: in the counter-based variant a test whose attempts are [failed,
\* passed] (failed first, passed on a retry) is treated as passed: it is
\* counted in passed, it adds no entry to failures, and the run exits with
\* status 0 when no other test failed (here: when it is the only test run).
C29_CounterRetriedAndPassed ==
    Exited =>
        \A t \in Tests :
            (results[t] = <<"failed", "passed">> /\ Observed = {t}) =>
                /\ passedCount = 1
                /\ failedCount = 0
                /\ \A j \in DOMAIN thisFailures : thisFailures[j].title # Suite.title[t]
                /\ exitCode = Some(0)

\* C30: in the variant that imports the colors table, the message of every
\* Failure entry written to the summary is the error messages of the failed
\* test's last attempt, in order, joined by newlines.
C30_ColorsFailureMessage ==
    Exited =>
        \A j \in DOMAIN Summary.failures :
            Summary.failures[j].message
                = Lines(MessagesOf(LastOf(RecordOf(Summary.failures[j].title))))

====
